---- MODULE Spec2Model ----
(***************************************************************************)
(* A model of the majorca browser sessions: browser.BaseBrowser (Start,    *)
(* Kill), chrome.Chrome (New, connectWebSocketWithRetry, connectWebSocket, *)
(* handleResponse, Load, Eval) and firefox.Firefox (the same, with stub    *)
(* Load and Eval).  Every goroutine is a process with a program counter;   *)
(* the embedded sync.Mutex, the Done channel, the WaitGroup, the Pending   *)
(* map, the id counter, the websocket and the browser process are the      *)
(* shared state.                                                           *)
(***************************************************************************)
EXTENDS Integers, Sequences, FiniteSets, TLC

\* ------------------------------------------------------------------ bounds
\* Number of method calls the callers make on one session; the frames the
\* browser writes unasked count as calls too.
MaxCalls == 3

\* Largest maxRetries connectWebSocketWithRetry is tried with, besides New's.
MaxRetries == 3

\* Largest number of targets in a discovery reply.
MaxTargets == 2

\* New calls connectWebSocketWithRetry(10, 1*time.Second).
NewRetries == 10

\* Range of the int32 request-id counter (Chrome.Id).
MaxInt32 == 2147483647
MinInt32 == -MaxInt32 - 1

\* The goroutines that call the session's methods.
Callers == {"c1", "c2"}

Variants == {"chrome", "firefox"}

\* A string is the sequence of its characters.
\* The values json.Unmarshal stores in an interface{}: a string, a float64
\* (here always a whole number), a bool, or nil for null and for an absent
\* member.
JString(s) == [kind |-> "string", s |-> s, n |-> 0, b |-> FALSE]
JNumber(n) == [kind |-> "number", s |-> <<>>, n |-> n, b |-> FALSE]
JBool(b) == [kind |-> "bool", s |-> <<>>, n |-> 0, b |-> b]
JNull == [kind |-> "null", s |-> <<>>, n |-> 0, b |-> FALSE]

\* browser.Result.Error: nil, or the protocol error object.
NoError == [present |-> FALSE, message |-> ""]
ProtocolError(m) == [present |-> TRUE, message |-> m]

\* browser.Result.Result of a reply without a result member.
NoResult == [type |-> "", value |-> JNull]

\* The zero browser.Result; none marks "no frame".
NoRes ==
    [id |-> 0, none |-> TRUE, valid |-> TRUE, dropped |-> FALSE,
     error |-> NoError, result |-> NoResult]

\* What a call returned besides its error: Eval's two strings, and the
\* message inside the error.
NoOut == [text |-> <<>>, type |-> "", message |-> ""]
NoKey == <<>>
NoErr == [attempts |-> 0, last |-> "none"]

VARIABLES
    variant,     \* which browser family the session is
    mu,          \* BaseBrowser.Mutex: "free", a caller, or "disp"
    Ws,          \* BaseBrowser.Ws: "nil", "open" or "closed"
    Id,          \* Chrome.Id / Firefox.Id, the request-id counter
    Pending,     \* BaseBrowser.Pending: idStr -> the caller that owns the channel
    DoneClosed,  \* whether BaseBrowser.Done is closed
    doneCloses,  \* how many times close(b.Done) has run
    Wg,          \* BaseBrowser.Wg counter
    Process,     \* b.Cmd.Process: "nil" or "handle"
    procAlive,   \* whether the operating-system process is running
    spawns,      \* how many processes Cmd.Start has spawned
    pc,          \* position of each caller
    op,          \* the method each caller is in (or was last in)
    idStr,       \* the local idStr of each caller's Load / Eval
    got,         \* what each caller received on its responseChan
    ret,         \* what each caller's last call returned
    dpc,         \* position of the handleResponse goroutine
    dres,        \* handleResponse's local res
    sent,        \* request ids the browser has received and not yet answered
    inbound,     \* frames the browser has written to the socket, oldest first
    calls,       \* number of calls made so far
    killReturned,\* whether some Kill call has returned
    afterKill,   \* per caller: its call was issued after a Kill had returned
    out,         \* per caller: the strings its last call returned
    unsolicited, \* number of frames the browser wrote that answer no request
    kerr,        \* per caller: the failures its Kill call has met so far
    profile,     \* Firefox's profile directory: "none", "present", "removed"
    npc,         \* position of New
    maxRetries,  \* connectWebSocketWithRetry's parameter
    i,           \* connectWebSocketWithRetry's loop counter
    err,         \* connectWebSocketWithRetry's err
    retryErr,    \* the error connectWebSocketWithRetry returned
    attempts,    \* number of calls of connectWebSocket
    cpc,         \* position of connectWebSocket
    cret,        \* what the last call of connectWebSocket returned
    targets,     \* {len(targets)} once the discovery reply is decoded, else {}
    events       \* network operations of the current connectWebSocket call

\* The variables of the running session.
svars == <<variant, mu, Ws, Id, Pending, DoneClosed, doneCloses, Wg, Process,
           procAlive, spawns, pc, op, idStr, got, ret, dpc, dres, sent,
           inbound, calls, killReturned, afterKill, out, unsolicited, kerr,
           profile>>

\* The variables of New and of the connection establishment.
ctor == <<npc, maxRetries, i, err, retryErr, attempts, cpc, cret, targets,
          events>>

vars == <<svars, ctor>>

\* ------------------------------------------------------------- pure helpers
DigitChars == <<"0", "1", "2", "3", "4", "5", "6", "7", "8", "9">>

RECURSIVE Dec(_)
Dec(n) == IF n < 10 THEN <<DigitChars[n + 1]>>
          ELSE Dec(n \div 10) \o <<DigitChars[(n % 10) + 1]>>

\* The decimal digits of |n|; -MinInt32 is not an int32.
Magnitude(n) ==
    IF n >= 0 THEN Dec(n)
    ELSE IF n = MinInt32
         THEN Dec(MaxInt32 \div 10) \o <<DigitChars[(MaxInt32 % 10) + 2]>>
         ELSE Dec(-n)

\* fmt.Sprintf("%d", n)
IdStr(n) == IF n < 0 THEN <<"-">> \o Magnitude(n) ELSE Dec(n)

RECURSIVE StripZeros(_)
StripZeros(d) ==
    IF Len(d) > 1 /\ d[Len(d)] = "0"
    THEN StripZeros(SubSeq(d, 1, Len(d) - 1))
    ELSE d

\* The decimal exponent from which %v prints a float64 with an exponent.
ExpThreshold == 6

\* fmt.Sprintf("%v", f) for a float64 f holding the whole number n: the
\* shortest %g form, that is all the digits while the decimal exponent is
\* below ExpThreshold, and d.ddde+XX from there on.
FormatFloat(n) ==
    LET d == Magnitude(n)
        exp == Len(d) - 1
        m == StripZeros(d)
        sign == IF n < 0 THEN <<"-">> ELSE <<>>
        frac == IF Len(m) > 1 THEN <<".">> \o Tail(m) ELSE <<>>
        e2 == IF exp < 10 THEN <<"0">> \o Dec(exp) ELSE Dec(exp)
    IN IF exp < ExpThreshold
       THEN sign \o d
       ELSE sign \o <<m[1]>> \o frac \o <<"e", "+">> \o e2

\* fmt.Sprintf("%v", v) for a decoded JSON value v
SprintV(v) ==
    CASE v.kind = "string" -> v.s
      [] v.kind = "number" -> FormatFloat(v.n)
      [] v.kind = "bool" -> IF v.b THEN <<"t", "r", "u", "e">>
                            ELSE <<"f", "a", "l", "s", "e">>
      [] v.kind = "null" -> <<"<", "n", "i", "l", ">">>

\* c.Id++ on an int32
Inc32(n) == IF n = MaxInt32 THEN MinInt32 ELSE n + 1

\* The int32 before n.
Prev32(n) == IF n = MinInt32 THEN MaxInt32 ELSE n - 1

\* c.Pending[k] = ch
MapPut(m, k, v) == [x \in (DOMAIN m) \cup {k} |-> IF x = k THEN v ELSE m[x]]

\* delete(c.Pending, k)
MapDelete(m, k) == [x \in (DOMAIN m) \ {k} |-> m[x]]

EmptyMap == [x \in {} |-> "c1"]

Crashed == dpc = "panic"

\* ------------------------------------------------------------ construction
\* The struct as chrome.New / firefox.New builds it, before Start.
Built(v) ==
    /\ variant = v
    /\ profile = (IF v = "firefox" THEN "present" ELSE "none")
    /\ mu = "free"
    /\ Id = 1
    /\ Pending = EmptyMap
    /\ DoneClosed = FALSE
    /\ doneCloses = 0
    /\ pc = [c \in Callers |-> "idle"]
    /\ op = [c \in Callers |-> "none"]
    /\ idStr = [c \in Callers |-> NoKey]
    /\ got = [c \in Callers |-> NoRes]
    /\ ret = [c \in Callers |-> "none"]
    /\ dres = NoRes
    /\ sent = {}
    /\ inbound = <<>>
    /\ calls = 0
    /\ killReturned = FALSE
    /\ afterKill = [c \in Callers |-> FALSE]
    /\ out = [c \in Callers |-> NoOut]
    /\ unsolicited = 0
    /\ kerr = [c \in Callers |-> {}]

\* The session as it is before Start: no process, no transport, no dispatcher.
Unstarted(v) ==
    /\ Built(v)
    /\ Ws = "nil"
    /\ Wg = 0
    /\ Process = "nil"
    /\ procAlive = FALSE
    /\ spawns = 0
    /\ dpc = "notStarted"

\* The session New returns: process started, connection attempt succeeded,
\* Wg.Add(1) and go handleResponse() done.
Connected(v) ==
    /\ Built(v)
    /\ Ws = (IF v = "chrome" THEN "open" ELSE "nil")
    /\ Wg = 1
    /\ Process = "handle"
    /\ procAlive = TRUE
    /\ spawns = 1
    /\ dpc = "top"

\* New is not running: its locals do not exist.
CtorAt(p, r) ==
    /\ npc = p
    /\ maxRetries = NewRetries
    /\ i = 0
    /\ err = "nil"
    /\ retryErr = NoErr
    /\ attempts = 0
    /\ cpc = "idle"
    /\ cret = r
    /\ targets = {}
    /\ events = <<>>

\* The caller whose Eval is outstanding in a long-running session.
Oldest == "c2"

\* A Chrome session that has run long: the counter, an int32, has come round
\* to its largest value, and the Eval that was given the smallest int32 as
\* its id, 2^32 - 1 requests ago, still waits for a reply (nothing ever
\* times a request out).
LongRunning ==
    /\ variant = "chrome"
    /\ profile = "none"
    /\ mu = "free"
    /\ Ws = "open"
    /\ Id = MaxInt32
    /\ Pending = MapPut(EmptyMap, IdStr(MinInt32), Oldest)
    /\ DoneClosed = FALSE
    /\ doneCloses = 0
    /\ Wg = 1
    /\ Process = "handle"
    /\ procAlive = TRUE
    /\ spawns = 1
    /\ pc = [c \in Callers |-> IF c = Oldest THEN "wait" ELSE "idle"]
    /\ op = [c \in Callers |-> IF c = Oldest THEN "Eval" ELSE "none"]
    /\ idStr = [c \in Callers |->
                  IF c = Oldest THEN IdStr(MinInt32) ELSE NoKey]
    /\ got = [c \in Callers |-> NoRes]
    /\ ret = [c \in Callers |-> "none"]
    /\ out = [c \in Callers |-> NoOut]
    /\ unsolicited = 0
    /\ kerr = [c \in Callers |-> {}]
    /\ dpc = "top"
    /\ dres = NoRes
    /\ sent = {MinInt32}
    /\ inbound = <<>>
    /\ calls = 1
    /\ killReturned = FALSE
    /\ afterKill = [c \in Callers |-> FALSE]

Init ==
    \/ \E v \in Variants :
          \/ Unstarted(v) /\ CtorAt("unused", "none")
          \/ Connected(v) /\ CtorAt("returned", "nil")
    \/ LongRunning /\ CtorAt("returned", "nil")

\* ------------------------------------------------------------------ calls
Invoke(c, o) ==
    /\ ~Crashed
    /\ pc[c] = "idle"
    /\ calls + unsolicited < MaxCalls
    /\ calls' = calls + 1
    /\ pc' = [pc EXCEPT ![c] = "lock"]
    /\ op' = [op EXCEPT ![c] = o]
    /\ idStr' = [idStr EXCEPT ![c] = NoKey]
    /\ got' = [got EXCEPT ![c] = NoRes]
    /\ ret' = [ret EXCEPT ![c] = "none"]
    /\ afterKill' = [afterKill EXCEPT ![c] = killReturned]
    /\ out' = [out EXCEPT ![c] = NoOut]
    /\ kerr' = [kerr EXCEPT ![c] = {}]
    /\ UNCHANGED <<variant, mu, Ws, Id, Pending, DoneClosed, doneCloses, Wg,
                   Process, procAlive, spawns, dpc, dres, sent, inbound,
                   killReturned, unsolicited, profile>>

CallStart(c) == Invoke(c, "Start") /\ UNCHANGED ctor
CallKill(c) == Invoke(c, "Kill") /\ UNCHANGED ctor
CallLoad(c) == variant = "chrome" /\ Invoke(c, "Load") /\ UNCHANGED ctor
CallEval(c) == variant = "chrome" /\ Invoke(c, "Eval") /\ UNCHANGED ctor

\* A Lock that does not wait for the mutex to be free.
AcquireUnguarded(c) ==
    /\ ~Crashed
    /\ pc[c] = "lock"
    /\ mu' = c
    /\ pc' = [pc EXCEPT ![c] = "locked"]
    /\ UNCHANGED <<variant, Ws, Id, Pending, DoneClosed, doneCloses, Wg,
                   Process, procAlive, spawns, op, idStr, got, ret, dpc, dres,
                   sent, inbound, calls, killReturned, afterKill, out,
                   unsolicited,
                   kerr, profile, ctor>>

\* b.Lock() / c.Lock() by a caller
Acquire(c) ==
    /\ ~Crashed
    /\ pc[c] = "lock"
    /\ mu = "free"
    /\ mu' = c
    /\ pc' = [pc EXCEPT ![c] = "locked"]
    /\ UNCHANGED <<variant, Ws, Id, Pending, DoneClosed, doneCloses, Wg,
                   Process, procAlive, spawns, op, idStr, got, ret, dpc, dres,
                   sent, inbound, calls, killReturned, afterKill, out,
                   unsolicited, kerr, profile, ctor>>

\* The caller returns r; unlock says whether the mutex is released on the way.
Return(c, r, unlock) ==
    /\ pc' = [pc EXCEPT ![c] = "idle"]
    /\ ret' = [ret EXCEPT ![c] = r]
    /\ mu' = IF unlock THEN "free" ELSE mu
    /\ killReturned' = (killReturned \/ op[c] = "Kill")
    /\ UNCHANGED afterKill

\* ------------------------------------------------------ BaseBrowser.Start
\* Outcomes of b.Cmd.Start().
CmdStartOutcomes == {"ok", "err"}

\* Start without the check of b.Cmd.Process: it spawns on every call.
StartBodyNoCheck(c) ==
    /\ ~Crashed
    /\ pc[c] = "locked"
    /\ op[c] = "Start"
    /\ Process' = "handle"
    /\ procAlive' = TRUE
    /\ spawns' = spawns + 1
    /\ Return(c, "nil", TRUE)
    /\ UNCHANGED <<variant, Ws, Id, Pending, DoneClosed, doneCloses, Wg, op,
                   idStr, got, dpc, dres, sent, inbound, calls, out, unsolicited,
                   kerr, profile, ctor>>

StartBody(c) ==
    /\ ~Crashed
    /\ pc[c] = "locked"
    /\ op[c] = "Start"
    /\ IF Process # "nil"
       THEN /\ Return(c, "nil", TRUE)
            /\ UNCHANGED <<Process, procAlive, spawns>>
       ELSE \E o \in CmdStartOutcomes :
              IF o = "ok"
              THEN /\ Process' = "handle"
                   /\ procAlive' = TRUE
                   /\ spawns' = spawns + 1
                   /\ Return(c, "nil", TRUE)
              ELSE /\ Return(c, "ErrStart", TRUE)
                   /\ UNCHANGED <<Process, procAlive, spawns>>
    /\ UNCHANGED <<variant, Ws, Id, Pending, DoneClosed, doneCloses, Wg, op,
                   idStr, got, dpc, dres, sent, inbound, calls, out,
                   unsolicited, kerr, profile, ctor>>

\* ------------------------------------------------------- BaseBrowser.Kill
\* Kill without the select on b.Done: it closes the channel on every call.
KillSignalNoSelect(c) ==
    /\ ~Crashed
    /\ pc[c] = "locked"
    /\ op[c] = "Kill"
    /\ DoneClosed' = TRUE
    /\ doneCloses' = doneCloses + 1
    /\ pc' = [pc EXCEPT ![c] = "killClose"]
    /\ UNCHANGED <<variant, mu, Ws, Id, Pending, Wg, Process, procAlive,
                   spawns, op, idStr, got, ret, dpc, dres, sent, inbound,
                   calls, killReturned, afterKill, out, unsolicited,
                   kerr, profile, ctor>>

\* select { case <-b.Done: default: close(b.Done) }
KillSignal(c) ==
    /\ ~Crashed
    /\ pc[c] = "locked"
    /\ op[c] = "Kill"
    /\ IF DoneClosed
       THEN UNCHANGED <<DoneClosed, doneCloses>>
       ELSE /\ DoneClosed' = TRUE
            /\ doneCloses' = doneCloses + 1
    /\ pc' = [pc EXCEPT ![c] = "killClose"]
    /\ UNCHANGED <<variant, mu, Ws, Id, Pending, Wg, Process, procAlive,
                   spawns, op, idStr, got, ret, dpc, dres, sent, inbound,
                   calls, killReturned, afterKill, out,
                   unsolicited, kerr, profile, ctor>>

\* Outcomes of b.Ws.Close(): the close frame or the close of the socket can
\* fail; the socket is closed either way.
CloseOutcomes == {"ok", "err"}

\* A Kill that returns when Close fails.
KillCloseWsReturns(c) ==
    /\ ~Crashed
    /\ pc[c] = "killClose"
    /\ IF Ws = "nil"
       THEN /\ pc' = [pc EXCEPT ![c] = "killWait"]
            /\ UNCHANGED <<Ws, kerr, ret, mu, killReturned, afterKill>>
       ELSE /\ Ws' = "closed"
            /\ \E o \in CloseOutcomes :
                 IF o = "ok"
                 THEN /\ pc' = [pc EXCEPT ![c] = "killWait"]
                      /\ UNCHANGED <<kerr, ret, mu, killReturned, afterKill>>
                 ELSE /\ kerr' = [kerr EXCEPT ![c] = @ \cup {"close"}]
                      /\ Return(c, "ErrClose", TRUE)
    /\ UNCHANGED <<variant, Id, Pending, DoneClosed, doneCloses, Wg,
                   Process, procAlive, spawns, op, idStr, got, dpc, dres,
                   sent, inbound, calls, out,
                   unsolicited, profile, ctor>>

\* if b.Ws != nil { if err := b.Ws.Close(); err != nil { fmt.Printf(...) } }
KillCloseWs(c) ==
    /\ ~Crashed
    /\ pc[c] = "killClose"
    /\ IF Ws = "nil"
       THEN UNCHANGED <<Ws, kerr>>
       ELSE /\ Ws' = "closed"
            /\ \E o \in CloseOutcomes :
                 kerr' = IF o = "ok" THEN kerr
                         ELSE [kerr EXCEPT ![c] = @ \cup {"close"}]
    /\ pc' = [pc EXCEPT ![c] = "killWait"]
    /\ UNCHANGED <<variant, mu, Id, Pending, DoneClosed, doneCloses, Wg,
                   Process, procAlive, spawns, op, idStr, got, ret, dpc, dres,
                   sent, inbound, calls, killReturned, afterKill, out,
                   unsolicited, profile, ctor>>

\* A Kill that does not wait for the dispatcher.
KillWaitNoBarrier(c) ==
    /\ ~Crashed
    /\ pc[c] = "killWait"
    /\ pc' = [pc EXCEPT ![c] = "killProc"]
    /\ UNCHANGED <<variant, mu, Ws, Id, Pending, DoneClosed, doneCloses, Wg,
                   Process, procAlive, spawns, op, idStr, got, ret, dpc, dres,
                   sent, inbound, calls, killReturned, afterKill, out,
                   unsolicited, kerr, profile, ctor>>

\* A Wait that also empties the Pending map.
KillWaitDrains(c) ==
    /\ ~Crashed
    /\ pc[c] = "killWait"
    /\ Wg = 0
    /\ Pending' = EmptyMap
    /\ pc' = [pc EXCEPT ![c] = "killProc"]
    /\ UNCHANGED <<variant, mu, Ws, Id, DoneClosed, doneCloses, Wg,
                   Process, procAlive, spawns, op, idStr, got, ret, dpc, dres,
                   sent, inbound, calls, killReturned, afterKill, out,
                   unsolicited, kerr, profile, ctor>>

\* b.Wg.Wait()
KillWait(c) ==
    /\ ~Crashed
    /\ pc[c] = "killWait"
    /\ Wg = 0
    /\ pc' = [pc EXCEPT ![c] = "killProc"]
    /\ UNCHANGED <<variant, mu, Ws, Id, Pending, DoneClosed, doneCloses, Wg,
                   Process, procAlive, spawns, op, idStr, got, ret, dpc, dres,
                   sent, inbound, calls, killReturned, afterKill, out,
                   unsolicited, kerr, profile, ctor>>

\* Outcomes of b.Cmd.Process.Kill(): it can fail on a running process and,
\* depending on the platform, fails or succeeds on one that is already gone.
ProcessKillOutcomes == {"ok", "err"}

\* BaseBrowser.Kill returns r (its deferred Unlock runs).  Chrome has no Kill
\* of its own; Firefox.Kill returns the error of the base Kill, and goes on
\* to its own cleanup when there is none.
KillReturn(c, r) ==
    IF variant = "firefox" /\ r = "nil"
    THEN /\ pc' = [pc EXCEPT ![c] = "cleanup"]
         /\ mu' = "free"
         /\ UNCHANGED <<ret, killReturned, afterKill>>
    ELSE Return(c, r, TRUE)

\* if b.Cmd.Process != nil { if err := b.Cmd.Process.Kill(); err != nil {...} }
KillProc(c) ==
    /\ ~Crashed
    /\ pc[c] = "killProc"
    /\ IF Process = "nil"
       THEN /\ KillReturn(c, "nil")
            /\ UNCHANGED <<procAlive, kerr>>
       ELSE \E o \in ProcessKillOutcomes :
              IF o = "ok"
              THEN /\ procAlive' = FALSE
                   /\ KillReturn(c, "nil")
                   /\ UNCHANGED kerr
              ELSE /\ pc' = [pc EXCEPT ![c] = "killProbe"]
                   /\ kerr' = [kerr EXCEPT ![c] = @ \cup {"kill"}]
                   /\ UNCHANGED <<procAlive, ret, mu, killReturned, afterKill>>
    /\ UNCHANGED <<variant, Ws, Id, Pending, DoneClosed, doneCloses, Wg,
                   Process, spawns, op, idStr, got, dpc, dres, sent, inbound,
                   calls, out,
                   unsolicited, profile, ctor>>

\* isProcessRunning(pid): os.FindProcess, then process.Signal(os.Kill).  It
\* reports true only when the signal was delivered, which needs a running
\* process and terminates it; a failure of either step reports false.
isProcessRunning(alive) == IF alive THEN {TRUE, FALSE} ELSE {FALSE}

KillProbe(c) ==
    /\ ~Crashed
    /\ pc[c] = "killProbe"
    /\ \E running \in isProcessRunning(procAlive) :
         IF ~running
         THEN /\ KillReturn(c, "nil")
              /\ UNCHANGED procAlive
         ELSE /\ KillReturn(c, "ErrKill")
              /\ procAlive' = FALSE
    /\ UNCHANGED <<variant, Ws, Id, Pending, DoneClosed, doneCloses, Wg,
                   Process, spawns, op, idStr, got, dpc, dres, sent, inbound,
                   calls, out,
                   unsolicited, kerr, profile, ctor>>

\* ------------------------------------------------------------ Firefox.Kill
\* Outcomes of os.RemoveAll(f.profile); removing what is already gone is no
\* error.
RemoveAllOutcomes == {"ok", "err"}

\* err = os.RemoveAll(f.profile); if err != nil { return fmt.Errorf(...) }
FirefoxCleanup(c) ==
    /\ ~Crashed
    /\ pc[c] = "cleanup"
    /\ \E o \in RemoveAllOutcomes :
         IF o = "ok"
         THEN /\ profile' = "removed"
              /\ Return(c, "nil", FALSE)
         ELSE /\ UNCHANGED profile
              /\ Return(c, "ErrProfile", FALSE)
    /\ UNCHANGED <<variant, Ws, Id, Pending, DoneClosed, doneCloses, Wg,
                   Process, procAlive, spawns, op, idStr, got, dpc, dres,
                   sent, inbound, calls, out,
                   unsolicited, kerr, ctor>>

\* ------------------------------------------------- Chrome.Load, Chrome.Eval
\* Outcomes of websocket.JSON.Send(c.Ws, message).
SendOutcomes(ws) == IF ws = "open" THEN {"ok", "err"} ELSE {"err"}

\* Whether the method keeps the mutex while it waits on responseChan: Load
\* unlocks by defer, Eval unlocks before the receive.
HoldsLockWhileWaiting(o) == o = "Load"

\* The locked part of Load and Eval: the transport check, the registration of
\* the response channel under idStr, c.Id++ and the send.
Issue(c) ==
    /\ ~Crashed
    /\ pc[c] = "locked"
    /\ op[c] \in {"Load", "Eval"}
    /\ IF Ws = "nil"
       THEN /\ Return(c, "ErrNotConnected", TRUE)
            /\ UNCHANGED <<Id, Pending, idStr, sent>>
       ELSE LET k == IdStr(Id)
                registered == MapPut(Pending, k, c)
            IN /\ idStr' = [idStr EXCEPT ![c] = k]
               /\ Id' = Inc32(Id)
               /\ \E o \in SendOutcomes(Ws) :
                    IF o = "ok"
                    THEN /\ Pending' = registered
                         /\ sent' = sent \cup {Id}
                         /\ pc' = [pc EXCEPT ![c] = "wait"]
                         /\ mu' = IF HoldsLockWhileWaiting(op[c])
                                  THEN mu ELSE "free"
                         /\ UNCHANGED <<ret, killReturned, afterKill>>
                    ELSE /\ Pending' = MapDelete(registered, k)
                         /\ Return(c, "ErrSend", TRUE)
                         /\ UNCHANGED sent
    /\ UNCHANGED <<variant, Ws, DoneClosed, doneCloses, Wg, Process,
                   procAlive, spawns, op, got, dpc, dres, inbound, calls, out,
                   unsolicited, kerr, profile, ctor>>

\* --------------------------------------------- Firefox.Load, Firefox.Eval
FirefoxStub(c, o) ==
    /\ ~Crashed
    /\ variant = "firefox"
    /\ pc[c] = "idle"
    /\ calls + unsolicited < MaxCalls
    /\ calls' = calls + 1
    /\ op' = [op EXCEPT ![c] = o]
    /\ idStr' = [idStr EXCEPT ![c] = NoKey]
    /\ got' = [got EXCEPT ![c] = NoRes]
    /\ ret' = [ret EXCEPT ![c] = "nil"]
    /\ out' = [out EXCEPT ![c] = NoOut]
    /\ afterKill' = [afterKill EXCEPT ![c] = killReturned]
    /\ UNCHANGED <<variant, mu, Ws, Id, Pending, DoneClosed, doneCloses, Wg,
                   Process, procAlive, spawns, pc, dpc, dres, sent, inbound,
                   killReturned,
                   unsolicited, kerr, profile, ctor>>

FirefoxLoad(c) == FirefoxStub(c, "Load")
FirefoxEval(c) == FirefoxStub(c, "Eval")

\* ------------------------------------------------------------ the browser
Example == <<"E", "x", "a", "m", "p", "l", "e">>

\* The replies the browser gives on a running session: a result, or a
\* protocol error object.
ReplyBodies ==
    {[error |-> NoError,
      result |-> [type |-> "string", value |-> JString(Example)]],
     [error |-> ProtocolError("Oops"), result |-> NoResult]}

\* A frame as the browser writes it; dropped records that handleResponse
\* found no channel for it.
Frame(n, body) ==
    [id |-> n, none |-> FALSE, valid |-> TRUE, dropped |-> FALSE,
     error |-> body.error, result |-> body.result]

\* A frame that is not the JSON of a Result.
Garbage == [Frame(0, [error |-> NoError, result |-> NoResult])
               EXCEPT !.valid = FALSE]

\* The browser answers a request it has received: it writes a frame that
\* carries the request's id.
BrowserReply ==
    /\ ~Crashed
    /\ Ws = "open"
    /\ \E n \in sent, body \in ReplyBodies :
         /\ sent' = sent \ {n}
         /\ inbound' = Append(inbound, Frame(n, body))
    /\ UNCHANGED <<variant, mu, Ws, Id, Pending, DoneClosed, doneCloses, Wg,
                   Process, procAlive, spawns, pc, op, idStr, got, ret, dpc,
                   dres, calls, killReturned, afterKill, out,
                   unsolicited, kerr, profile, ctor>>

\* Largest number of frames the browser writes that answer no request.
MaxUnsolicited == 1

\* What the browser writes unasked: an event (a frame without an id, which
\* decodes to ID 0), a frame carrying the id of the latest request once more
\* or of a request not yet made, or bytes that are not a Result.
UnsolicitedFrames ==
    {Garbage, Frame(0, [error |-> NoError, result |-> NoResult])}
       \cup {Frame(n, [error |-> NoError, result |-> NoResult]) :
                n \in {Id, Prev32(Id)}}

BrowserUnsolicited ==
    /\ ~Crashed
    /\ Ws = "open"
    /\ unsolicited < MaxUnsolicited
    /\ calls + unsolicited < MaxCalls
    /\ unsolicited' = unsolicited + 1
    /\ \E f \in UnsolicitedFrames : inbound' = Append(inbound, f)
    /\ UNCHANGED <<variant, mu, Ws, Id, Pending, DoneClosed, doneCloses, Wg,
                   Process, procAlive, spawns, pc, op, idStr, got, ret, dpc,
                   dres, sent, calls, killReturned, afterKill, out,
                   kerr, profile, ctor>>

\* The browser closes the connection, or the connection breaks.
TransportFail ==
    /\ ~Crashed
    /\ Ws = "open"
    /\ Ws' = "closed"
    /\ UNCHANGED <<variant, mu, Id, Pending, DoneClosed, doneCloses, Wg,
                   Process, procAlive, spawns, pc, op, idStr, got, ret, dpc,
                   dres, sent, inbound, calls, killReturned, afterKill, out,
                   unsolicited,
                   kerr, profile, ctor>>

\* ---------------------------------------------------------- handleResponse
\* select { case <-c.Done: return (deferred c.Wg.Done()); default: ... }
\* res is declared anew in every round of the loop: var res browser.Result
DispSelect ==
    /\ dpc = "top"
    /\ IF DoneClosed
       THEN /\ dpc' = "exited"
            /\ Wg' = Wg - 1
       ELSE /\ dpc' = "recv"
            /\ UNCHANGED Wg
    /\ dres' = NoRes
    /\ UNCHANGED <<variant, mu, Ws, Id, Pending, DoneClosed, doneCloses,
                   Process, procAlive, spawns, pc, op, idStr, got, ret,
                   sent, inbound, calls, killReturned, afterKill, out,
                   unsolicited,
                   kerr, profile, ctor>>

\* websocket.JSON.Receive(c.Ws, &res) returns a frame
DispRecvFrame ==
    /\ dpc = "recv"
    /\ Ws # "nil"
    /\ inbound # <<>>
    /\ Head(inbound).valid
    /\ dres' = Head(inbound)
    /\ inbound' = Tail(inbound)
    /\ dpc' = "lock"
    /\ UNCHANGED <<variant, mu, Ws, Id, Pending, DoneClosed, doneCloses, Wg,
                   Process, procAlive, spawns, pc, op, idStr, got, ret, sent,
                   calls, killReturned, afterKill, out,
                   unsolicited, kerr, profile, ctor>>

\* websocket.JSON.Receive reads a frame it cannot decode into res: print and
\* continue
DispRecvBad ==
    /\ dpc = "recv"
    /\ Ws # "nil"
    /\ inbound # <<>>
    /\ ~Head(inbound).valid
    /\ inbound' = Tail(inbound)
    /\ dpc' = "top"
    /\ UNCHANGED <<variant, mu, Ws, Id, Pending, DoneClosed, doneCloses, Wg,
                   Process, procAlive, spawns, pc, op, idStr, got, ret, dres,
                   sent, calls, killReturned, afterKill, out, unsolicited,
                   kerr, profile, ctor>>

\* websocket.JSON.Receive fails on the closed connection: print and continue
DispRecvErr ==
    /\ dpc = "recv"
    /\ Ws = "closed"
    /\ dpc' = "top"
    /\ UNCHANGED <<variant, mu, Ws, Id, Pending, DoneClosed, doneCloses, Wg,
                   Process, procAlive, spawns, pc, op, idStr, got, ret, dres,
                   sent, inbound, calls, killReturned, afterKill, out,
                   unsolicited, kerr, profile, ctor>>

\* websocket.JSON.Receive on a nil *websocket.Conn dereferences it: the
\* goroutine panics and the program ends.
DispRecvNil ==
    /\ dpc = "recv"
    /\ Ws = "nil"
    /\ dpc' = "panic"
    /\ UNCHANGED <<variant, mu, Ws, Id, Pending, DoneClosed, doneCloses, Wg,
                   Process, procAlive, spawns, pc, op, idStr, got, ret, dres,
                   sent, inbound, calls, killReturned, afterKill, out,
                   unsolicited, kerr, profile, ctor>>

\* c.Lock() in handleResponse
DispLock ==
    /\ dpc = "lock"
    /\ mu = "free"
    /\ mu' = "disp"
    /\ dpc' = "locked"
    /\ UNCHANGED <<variant, Ws, Id, Pending, DoneClosed, doneCloses, Wg,
                   Process, procAlive, spawns, pc, op, idStr, got, ret, dres,
                   sent, inbound, calls, killReturned, afterKill, out,
                   unsolicited, kerr, profile, ctor>>

\* A lookup under the id before the response's.
LookupKeyOffByOne(res) == IdStr(Prev32(res.id))

\* The key handleResponse looks up: fmt.Sprintf("%d", res.ID)
LookupKey(res) == IdStr(res.id)

\* A handleResponse that keeps a response nobody waits for and reads it
\* again later.
DispLookupRequeues ==
    /\ dpc = "locked"
    /\ IF LookupKey(dres) \in DOMAIN Pending
       THEN /\ dpc' = "send"
            /\ UNCHANGED <<mu, dres, inbound>>
       ELSE /\ dpc' = "top"
            /\ mu' = "free"
            /\ dres' = [dres EXCEPT !.dropped = TRUE]
            /\ inbound' = Append(inbound, dres')
    /\ UNCHANGED <<variant, Ws, Id, Pending, DoneClosed, doneCloses, Wg,
                   Process, procAlive, spawns, pc, op, idStr, got, ret,
                   sent, calls, killReturned, afterKill, out, unsolicited,
                   kerr, profile, ctor>>

\* if ch, ok := c.Pending[idStr]; ok { ... } c.Unlock()
\* A response without a channel is dropped: nothing is done with res.
DispLookup ==
    /\ dpc = "locked"
    /\ IF LookupKey(dres) \in DOMAIN Pending
       THEN /\ dpc' = "send"
            /\ UNCHANGED <<mu, dres>>
       ELSE /\ dpc' = "top"
            /\ mu' = "free"
            /\ dres' = [dres EXCEPT !.dropped = TRUE]
    /\ UNCHANGED <<variant, Ws, Id, Pending, DoneClosed, doneCloses, Wg,
                   Process, procAlive, spawns, pc, op, idStr, got, ret,
                   sent, inbound, calls, killReturned, afterKill, out,
                   unsolicited,
                   kerr, profile, ctor>>

\* An Outcome that takes every response for a success.
OutcomeIgnoresError(o, res) == "nil"

\* The error Load and Eval return for the response they received:
\* if res.Error != nil { return fmt.Errorf("... error: %s", ...) }
Outcome(o, res) ==
    IF res.error.present
    THEN (IF o = "Load" THEN "ErrNavigation" ELSE "ErrEvaluation")
    ELSE "nil"

\* Eval's switch over evalRes.Result.Value: a string as it is, anything else
\* through fmt.Sprintf("%v", v); with evalRes.Result.Type beside it.
Unwrap(result) ==
    [text |-> IF result.value.kind = "string" THEN result.value.s
              ELSE SprintV(result.value),
     type |-> result.type,
     message |-> ""]

\* The strings Load and Eval return for the response they received: the
\* error's message inside the error, or Eval's value and type.
Returned(o, res) ==
    IF Outcome(o, res) # "nil"
    THEN [text |-> <<>>, type |-> "", message |-> res.error.message]
    ELSE IF o = "Eval" THEN Unwrap(res.result) ELSE NoOut

\* ch <- res in handleResponse meets resInterface := <-responseChan in the
\* caller that owns ch; the caller runs on to its return (Load's deferred
\* Unlock included).
Deliver(c) ==
    /\ dpc = "send"
    /\ Pending[LookupKey(dres)] = c
    /\ pc[c] = "wait"
    /\ got' = [got EXCEPT ![c] = dres]
    /\ out' = [out EXCEPT ![c] = Returned(op[c], dres)]
    /\ Return(c, Outcome(op[c], dres), HoldsLockWhileWaiting(op[c]))
    /\ dpc' = "sent"
    /\ UNCHANGED <<variant, Ws, Id, Pending, DoneClosed, doneCloses, Wg,
                   Process, procAlive, spawns, op, idStr, dres, sent, inbound,
                   calls,
                   unsolicited, kerr, profile, ctor>>

\* A handleResponse that leaves the entry in the map after sending.
DispDeleteKeeps ==
    /\ dpc = "sent"
    /\ mu' = "free"
    /\ dpc' = "top"
    /\ UNCHANGED <<variant, Ws, Id, Pending, DoneClosed, doneCloses, Wg,
                   Process, procAlive, spawns, pc, op, idStr, got, ret, dres,
                   sent, inbound, calls, killReturned, afterKill, out,
                   unsolicited,
                   kerr, profile, ctor>>

\* delete(c.Pending, idStr); c.Unlock()
DispDelete ==
    /\ dpc = "sent"
    /\ Pending' = MapDelete(Pending, LookupKey(dres))
    /\ mu' = "free"
    /\ dpc' = "top"
    /\ UNCHANGED <<variant, Ws, Id, DoneClosed, doneCloses, Wg, Process,
                   procAlive, spawns, pc, op, idStr, got, ret, dres, sent,
                   inbound, calls, killReturned, afterKill, out,
                   unsolicited, kerr, profile, ctor>>

\* ------------------------------------------------------- the specification
CallerStep(c) ==
    \/ CallStart(c)
    \/ CallKill(c)
    \/ CallLoad(c)
    \/ CallEval(c)
    \/ FirefoxLoad(c)
    \/ FirefoxEval(c)
    \/ Acquire(c)
    \/ StartBody(c)
    \/ KillSignal(c)
    \/ KillCloseWs(c)
    \/ KillWait(c)
    \/ KillProc(c)
    \/ KillProbe(c)
    \/ FirefoxCleanup(c)
    \/ Issue(c)
    \/ Deliver(c)

DispStep ==
    \/ DispSelect
    \/ DispRecvFrame
    \/ DispRecvBad
    \/ DispRecvErr
    \/ DispRecvNil
    \/ DispLock
    \/ DispLookup
    \/ DispDelete

Next ==
    \/ \E c \in Callers : CallerStep(c)
    \/ DispStep
    \/ BrowserReply
    \/ BrowserUnsolicited
    \/ TransportFail

Spec == Init /\ [][Next]_vars

\* ------------------------------------------ New and connection establishment
\* The goroutine that runs New.
N == "c1"

\* chrome.New / firefox.New: if err := chrome.Start(); err != nil { return }
NewCallStart ==
    /\ npc = "start"
    /\ Invoke(N, "Start")
    /\ npc' = "starting"
    /\ UNCHANGED <<maxRetries, i, err, retryErr, attempts, cpc, cret, targets,
                   events>>

NewAfterStart ==
    /\ npc = "starting"
    /\ pc[N] = "idle"
    /\ npc' = IF ret[N] = "nil" THEN "connect" ELSE "returnedErr"
    /\ UNCHANGED <<svars, maxRetries, i, err, retryErr, attempts, cpc, cret,
                   targets, events>>

\* A loop that runs once more than maxRetries.
RetryAgainInclusive(n, max) == n <= max

\* The loop condition of connectWebSocketWithRetry.
RetryAgain(n, max) == n < max

\* for i := 0; i < maxRetries; i++ { err = c.connectWebSocket() ...
RetryLoop ==
    /\ npc = "connect"
    /\ cpc = "idle"
    /\ IF RetryAgain(i, maxRetries)
       THEN /\ cpc' = "port"
            /\ attempts' = attempts + 1
            /\ events' = <<>>
            /\ targets' = {}
            /\ UNCHANGED <<npc, retryErr>>
       ELSE \* return fmt.Errorf("... after %d attempts: %v", maxRetries, err)
            /\ retryErr' = [attempts |-> maxRetries, last |-> err]
            /\ npc' = "failed"
            /\ UNCHANGED <<cpc, attempts, events, targets>>
    /\ UNCHANGED <<svars, maxRetries, i, err, cret>>

\* connectWebSocket returns e.
ConnReturn(e) ==
    /\ cret' = e
    /\ cpc' = "ret"

\* if !waitForPort("localhost", port, 10*time.Second) { return error }
\* Firefox's connectWebSocket ends here.
ConnPort ==
    /\ cpc = "port"
    /\ events' = Append(events, "port")
    /\ \E open \in BOOLEAN :
         IF ~open THEN ConnReturn("ErrPort")
         ELSE IF variant = "firefox" THEN ConnReturn("nil")
         ELSE cpc' = "get" /\ UNCHANGED cret
    /\ UNCHANGED <<svars, npc, maxRetries, i, err, retryErr, attempts,
                   targets>>

\* resp, err := http.Get("http://localhost:9222/json")
ConnGet ==
    /\ cpc = "get"
    /\ events' = Append(events, "get")
    /\ \E ok \in BOOLEAN :
         IF ok THEN cpc' = "decode" /\ UNCHANGED cret
         ELSE ConnReturn("ErrGet")
    /\ UNCHANGED <<svars, npc, maxRetries, i, err, retryErr, attempts,
                   targets>>

\* connectWebSocket without the check of len(targets).
AfterDecodeNoCheck(n) == "dial"

\* What connectWebSocket does with the decoded targets: "dial" or an error.
AfterDecode(n) == IF n = 0 THEN "ErrNoTargets" ELSE "dial"

\* json.NewDecoder(resp.Body).Decode(&targets); if len(targets) == 0 {...}
ConnDecode ==
    /\ cpc = "decode"
    /\ \/ /\ ConnReturn("ErrDecode")
          /\ UNCHANGED targets
       \/ \E n \in 0..MaxTargets :
            /\ targets' = {n}
            /\ IF AfterDecode(n) = "dial"
               THEN cpc' = "dial" /\ UNCHANGED cret
               ELSE ConnReturn(AfterDecode(n))
    /\ UNCHANGED <<svars, npc, maxRetries, i, err, retryErr, attempts,
                   events>>

\* ws, err := websocket.Dial(wsURL, "", "http://localhost"); c.Ws = ws
ConnDial ==
    /\ cpc = "dial"
    /\ events' = Append(events, "dial")
    /\ \E ok \in BOOLEAN :
         IF ok
         THEN /\ Ws' = "open"
              /\ ConnReturn("nil")
         ELSE /\ UNCHANGED Ws
              /\ ConnReturn("ErrDial")
    /\ UNCHANGED <<variant, mu, Id, Pending, DoneClosed, doneCloses, Wg,
                   Process, procAlive, spawns, pc, op, idStr, got, ret, dpc,
                   dres, sent, inbound, calls, killReturned, afterKill,
                   out, unsolicited, kerr, profile,
                   npc, maxRetries, i, err, retryErr, attempts, targets>>

\* err = c.connectWebSocket(); if err == nil { return nil }; Sleep; i++
RetryCheck ==
    /\ npc = "connect"
    /\ cpc = "ret"
    /\ err' = cret
    /\ cpc' = "idle"
    /\ IF cret = "nil"
       THEN npc' = "connected" /\ UNCHANGED i
       ELSE i' = i + 1 /\ UNCHANGED npc
    /\ UNCHANGED <<svars, maxRetries, retryErr, attempts, cret, targets,
                   events>>

\* if err := connectWebSocketWithRetry(...); err != nil { chrome.Kill() ...
NewCallKill ==
    /\ npc = "failed"
    /\ Invoke(N, "Kill")
    /\ npc' = "killing"
    /\ UNCHANGED <<maxRetries, i, err, retryErr, attempts, cpc, cret, targets,
                   events>>

\* ... return nil, err }
NewAfterKill ==
    /\ npc = "killing"
    /\ pc[N] = "idle"
    /\ npc' = "returnedErr"
    /\ UNCHANGED <<svars, maxRetries, i, err, retryErr, attempts, cpc, cret,
                   targets, events>>

\* chrome.Wg.Add(1); go chrome.handleResponse(); return chrome, nil
NewSpawn ==
    /\ npc = "connected"
    /\ Wg' = Wg + 1
    /\ dpc' = "top"
    /\ npc' = "returned"
    /\ UNCHANGED <<variant, mu, Ws, Id, Pending, DoneClosed, doneCloses,
                   Process, procAlive, spawns, pc, op, idStr, got, ret, dres,
                   sent, inbound, calls, killReturned, afterKill, out,
                   unsolicited, kerr, profile,
                   maxRetries, i, err, retryErr, attempts, cpc, cret, targets,
                   events>>

\* New runs Start and Kill on its own goroutine.
NewRun ==
    /\ npc \in {"starting", "killing"}
    /\ \/ Acquire(N)
       \/ StartBody(N)
       \/ KillSignal(N)
       \/ KillCloseWs(N)
       \/ KillWait(N)
       \/ KillProc(N)
       \/ KillProbe(N)
       \/ FirefoxCleanup(N)

InitNew ==
    /\ \E v \in Variants : Unstarted(v)
    /\ npc = "start"
    /\ maxRetries \in (0..MaxRetries) \cup {NewRetries}
    /\ i = 0
    /\ err = "nil"
    /\ retryErr = NoErr
    /\ attempts = 0
    /\ cpc = "idle"
    /\ cret = "none"
    /\ targets = {}
    /\ events = <<>>

NextNew ==
    \/ NewCallStart
    \/ NewAfterStart
    \/ RetryLoop
    \/ ConnPort
    \/ ConnGet
    \/ ConnDecode
    \/ ConnDial
    \/ RetryCheck
    \/ NewCallKill
    \/ NewAfterKill
    \/ NewSpawn
    \/ NewRun

SpecNew == InitNew /\ [][NextNew]_vars

\* The goroutine steps a fair scheduler keeps taking: every step of a caller
\* inside a method, every step of handleResponse, and the browser's replies.
\* Whether and when a caller calls a method is left open.
ThreadStep(c) ==
    \/ Acquire(c)
    \/ StartBody(c)
    \/ KillSignal(c)
    \/ KillCloseWs(c)
    \/ KillWait(c)
    \/ KillProc(c)
    \/ KillProbe(c)
    \/ FirefoxCleanup(c)
    \/ Issue(c)
    \/ Deliver(c)

FairSpec ==
    /\ Spec
    /\ \A c \in Callers : WF_vars(ThreadStep(c))
    /\ WF_vars(DispStep)
    /\ WF_vars(BrowserReply)

\* ------------------------------------------- Eval on a reply of any content
\* Largest magnitude of the whole numbers tried one by one.
MaxWhole == 40

\* The whole numbers a reply reports: every small one, and some around the
\* powers of ten.
Wholes == (-MaxWhole..MaxWhole)
             \cup {99999, 100000, 999999, 1000000, 1234567, -1000000,
                   120000000, MaxInt32}

EvalValues ==
    {JString(Example), JString(<<>>), JString(<<"4", "2">>), JNull}
       \cup {JNumber(n) : n \in Wholes}
       \cup {JBool(b) : b \in BOOLEAN}

\* The type tags of a Runtime.evaluate result, and none.
TypeTags == {"string", "number", "boolean", "object", "undefined", ""}

EvalReplyBodies ==
    {[error |-> NoError, result |-> [type |-> t, value |-> v]] :
        t \in TypeTags, v \in EvalValues}
       \cup {[error |-> ProtocolError(m), result |-> NoResult] :
                m \in {"Oops", "SyntaxError"}}

\* The first Eval of a Chrome session has sent request 1 and waits on its
\* channel; handleResponse has received the reply, found the channel and is
\* about to send on it.
InitEval ==
    /\ variant = "chrome"
    /\ profile = "none"
    /\ mu = "disp"
    /\ Ws = "open"
    /\ Id = 2
    /\ Pending = MapPut(EmptyMap, IdStr(1), N)
    /\ DoneClosed = FALSE
    /\ doneCloses = 0
    /\ Wg = 1
    /\ Process = "handle"
    /\ procAlive = TRUE
    /\ spawns = 1
    /\ pc = [c \in Callers |-> IF c = N THEN "wait" ELSE "idle"]
    /\ op = [c \in Callers |-> IF c = N THEN "Eval" ELSE "none"]
    /\ idStr = [c \in Callers |-> IF c = N THEN IdStr(1) ELSE NoKey]
    /\ got = [c \in Callers |-> NoRes]
    /\ ret = [c \in Callers |-> "none"]
    /\ out = [c \in Callers |-> NoOut]
    /\ unsolicited = 0
    /\ kerr = [c \in Callers |-> {}]
    /\ dpc = "send"
    /\ \E body \in EvalReplyBodies : dres = Frame(1, body)
    /\ sent = {}
    /\ inbound = <<>>
    /\ calls = 1
    /\ killReturned = FALSE
    /\ afterKill = [c \in Callers |-> FALSE]
    /\ CtorAt("returned", "nil")

NextEval ==
    \/ \E c \in Callers : Deliver(c)
    \/ DispDelete

SpecEval == InitEval /\ [][NextEval]_vars

\* ------------------------------------------------------------------ claims
Received(c) == ~got[c].none

\* C1: every caller that has received a response on its channel received the
\* response whose id is the id of its own request, whatever the order in
\* which the replies to concurrently outstanding requests arrive.
C1_OwnResponse ==
    \A c \in Callers : Received(c) => IdStr(got[c].id) = idStr[c]

\* C1 witness: two Evals were outstanding together and the reply to the later
\* request (id 2) was delivered while the earlier one (id 1) still waits.
C1_Witness ==
    \E c, d \in Callers :
       /\ c # d
       /\ op[c] = "Eval" /\ op[d] = "Eval"
       /\ Received(c) /\ idStr[c] = IdStr(2) /\ got[c].id = 2
       /\ pc[d] = "wait" /\ idStr[d] = IdStr(1)

NoKillCalled == \A d \in Callers : op[d] # "Kill"

\* C2: on a connected Chrome session whose connection stays open, whose
\* browser answers every request and on which no Kill is called, a Load that
\* has sent its request eventually returns.
C2_LoadReturns ==
    \A c \in Callers :
       (variant = "chrome" /\ op[c] = "Load" /\ pc[c] = "wait"
           /\ NoKillCalled /\ Ws = "open")
          ~> (pc[c] = "idle" \/ ~NoKillCalled \/ Ws # "open")

\* C3: no caller holds the session mutex while it is blocked on its
\* response channel.
C3_NoLockWhileWaiting ==
    \A c \in Callers : pc[c] = "wait" => mu # c

NoLoadCalled == \A d \in Callers : op[d] # "Load"

\* C4: a Kill that has been called on a Chrome session eventually returns;
\* stated for the runs in which no Load is called, so that Kill is held up
\* by nothing but its own steps and the handleResponse goroutine.
C4_KillReturns ==
    \A c \in Callers :
       (variant = "chrome" /\ op[c] = "Kill" /\ pc[c] # "idle"
           /\ NoLoadCalled)
          ~> (pc[c] = "idle" \/ ~NoLoadCalled)

KillHasReturned(c) == op[c] = "Kill" /\ pc[c] = "idle" /\ ret[c] # "none"

\* C5: whenever a Kill call has returned, the Pending map is empty and the
\* handleResponse goroutine is not running.
C5_KillLeavesNothing ==
    \A c \in Callers :
       KillHasReturned(c) =>
          /\ DOMAIN Pending = {}
          /\ dpc \in {"exited", "notStarted"}

\* C6 as stated: Done is closed exactly once over all Kill calls, and a Kill
\* issued after a Kill has returned returns without error.
C6_SecondKillNoError ==
    /\ doneCloses <= 1
    /\ \A c \in Callers :
          (op[c] = "Kill" /\ afterKill[c]) => ret[c] # "ErrKill"

\* C6 as amended: Done is closed at most once, and exactly once as soon as a
\* Kill has passed the signalling step; a Kill returns an error only when its
\* termination step found the process still running, so a Kill issued once
\* the process is gone returns without error.
C6_KillIdempotent ==
    /\ [](doneCloses <= 1 /\ (DoneClosed <=> doneCloses = 1))
    /\ [](\A c \in Callers : KillHasReturned(c) => doneCloses = 1)
    /\ [][\A c \in Callers :
             (op[c] = "Kill" /\ ret'[c] = "ErrKill" /\ ret[c] # "ErrKill")
                => procAlive]_vars

\* C6 witness: a Kill issued after a completed Kill has returned without
\* error, with Done closed once.
C6_Witness ==
    \E c \in Callers :
       /\ KillHasReturned(c) /\ afterKill[c] /\ ret[c] = "nil"
       /\ doneCloses = 1
       /\ Process = "handle"

\* C7: at most one process is ever spawned, and a Start that finds the
\* process handle set spawns nothing, leaves the handle alone and returns nil.
C7_StartIdempotent ==
    /\ [](spawns <= 1 /\ (Process = "nil" <=> spawns = 0))
    /\ [][\A c \in Callers :
             (op[c] = "Start" /\ pc[c] = "locked" /\ pc'[c] = "idle"
                 /\ Process # "nil")
                => (Process' = Process /\ spawns' = spawns
                       /\ procAlive' = procAlive /\ ret'[c] = "nil")]_vars

\* C7 witness: on a session that began without a process, two Start calls
\* have returned nil and one process was spawned.
C7_Witness ==
    /\ npc = "unused"
    /\ spawns = 1
    /\ \A c \in Callers : op[c] = "Start" /\ pc[c] = "idle" /\ ret[c] = "nil"

\* C8: a Load or Eval that returned while no transport exists returned the
\* not-connected error and left the id counter and the Pending map untouched,
\* for every browser variant.
C8_NotConnected ==
    \A c \in Callers :
       (op[c] \in {"Load", "Eval"} /\ pc[c] = "idle" /\ Ws = "nil")
          => /\ ret[c] = "ErrNotConnected"
             /\ Id = 1
             /\ DOMAIN Pending = {}

RetrySucceeded == npc \in {"connected", "returned"}
RetryFailed == npc \in {"failed", "killing"}
                  \/ (npc = "returnedErr" /\ retryErr # NoErr)

\* C9: when connectWebSocketWithRetry has returned nil, the attempts before
\* the last all failed (i of them, i < maxRetries), exactly i + 1 attempts
\* were made and the last one returned nil; when it has returned an error,
\* exactly maxRetries attempts were made and the error carries maxRetries and
\* what the last attempt returned.
C9_Retry ==
    /\ RetrySucceeded =>
          /\ i < maxRetries
          /\ attempts = i + 1
          /\ cret = "nil"
    /\ RetryFailed =>
          /\ attempts = maxRetries
          /\ i = maxRetries
          /\ retryErr.attempts = maxRetries
          /\ maxRetries > 0 => (retryErr.last = cret /\ cret # "nil")

\* C9 witness: New's ten-attempt retry succeeded on the third attempt.
C9_Witness ==
    /\ npc = "connected"
    /\ maxRetries = NewRetries
    /\ i = 2
    /\ attempts = 3

IsPrefix(a, b) == Len(a) <= Len(b) /\ \A k \in 1..Len(a) : a[k] = b[k]

Dialled == \E k \in 1..Len(events) : events[k] = "dial"

\* C10: in one connectWebSocket call the port check comes before the
\* discovery request and the discovery request before the dial; a discovery
\* reply with no targets makes the call return the no-targets error without
\* dialling and with the transport still unset; the transport is set only by
\* a dial that succeeded.
C10_ConnectOrder ==
    /\ IsPrefix(events, <<"port", "get", "dial">>)
    /\ targets = {0} =>
          /\ cret = "ErrNoTargets"
          /\ cpc \in {"ret", "idle"}
          /\ ~Dialled
          /\ Ws = "nil"
    /\ cpc = "dial" => \E n \in 1..MaxTargets : targets = {n}
    /\ Ws # "nil" =>
          /\ events = <<"port", "get", "dial">>
          /\ cret = "nil"

\* C10 witness: Chrome's discovery reply held no target and the attempt
\* returned the no-targets error.
C10_Witness ==
    /\ variant = "chrome"
    /\ targets = {0}
    /\ cpc = "ret"
    /\ cret = "ErrNoTargets"
    /\ events = <<"port", "get">>

\* The JSON text of a decoded value.
CanonicalText(v) ==
    CASE v.kind = "string" -> v.s
      [] v.kind = "number" ->
            (IF v.n < 0 THEN <<"-">> ELSE <<>>) \o Magnitude(v.n)
      [] v.kind = "bool" -> IF v.b THEN <<"t", "r", "u", "e">>
                            ELSE <<"f", "a", "l", "s", "e">>
      [] v.kind = "null" -> <<"n", "u", "l", "l">>

EvalSucceeded(c) ==
    op[c] = "Eval" /\ Received(c) /\ ~got[c].error.present

\* C11: an Eval that received a reply without an error object returns no
\* error, the reported type tag, and as its text the reported value itself
\* when that is a string and the value's canonical text otherwise.
C11_EvalUnwraps ==
    \A c \in Callers :
       EvalSucceeded(c) =>
          /\ ret[c] = "nil"
          /\ out[c].type = got[c].result.type
          /\ out[c].text = CanonicalText(got[c].result.value)

GotError(c) ==
    op[c] \in {"Load", "Eval"} /\ Received(c) /\ got[c].error.present

\* C13: a Load or Eval that received a reply carrying a protocol error
\* object returns its error (navigation error for Load, evaluation error for
\* Eval) with the message of that object inside, never success, and Eval
\* returns the empty string for both the value and the type.
C13_ProtocolError ==
    \A c \in Callers :
       GotError(c) =>
          /\ ret[c] = (IF op[c] = "Load" THEN "ErrNavigation"
                       ELSE "ErrEvaluation")
          /\ out[c].message = got[c].error.message
          /\ out[c].text = <<>>
          /\ out[c].type = ""

\* C13 witness: an Eval received an error reply and returned the evaluation
\* error carrying its message.
C13_Witness ==
    \E c \in Callers :
       /\ op[c] = "Eval"
       /\ GotError(c)
       /\ pc[c] = "idle"
       /\ ret[c] = "ErrEvaluation"
       /\ out[c].message = "Oops"

SendFailed(c) ==
    pc[c] = "locked" /\ pc'[c] = "idle" /\ ret'[c] = "ErrSend"

\* C12: the step in which a Load or Eval finds its send failed returns the
\* send error to that call alone, releases the mutex, and leaves the Pending
\* map as it was when the call took the mutex, every other caller's entry
\* and position included.
C12_SendFailure ==
    [][\A c \in Callers :
          SendFailed(c) =>
             /\ Pending' = Pending
             /\ mu' = "free"
             /\ \A d \in Callers \ {c} :
                   pc'[d] = pc[d] /\ ret'[d] = ret[d]]_vars

Issuing(c) ==
    /\ pc[c] = "locked" /\ pc'[c] # "locked"
    /\ op[c] \in {"Load", "Eval"}
    /\ Ws # "nil"

\* C16: the counter changes only in the step of a Load or Eval that holds
\* the mutex and takes the counter's value as its id; it only ever grows,
\* so ids are handed out in strictly increasing order; every such step moves
\* it, whether the send succeeds or fails; and no two callers wait on the
\* same id.
C16_IdsIncrease ==
    /\ [][Id' # Id => (Id' > Id /\ \E c \in Callers : Issuing(c))]_vars
    /\ [][\A c \in Callers :
             Issuing(c) =>
                (mu = c /\ idStr'[c] = IdStr(Id) /\ Id' # Id)]_vars
    /\ [](\A c, d \in Callers :
             (c # d /\ pc[c] = "wait" /\ pc[d] = "wait")
                => idStr[c] # idStr[d])

\* C17: the channel stored under an id stays the one stored there until it
\* is removed, and a Load or Eval whose id is already in the Pending map
\* does not go on to wait on that id.
C17_NoOverwrite ==
    [][/\ \A k \in (DOMAIN Pending) \cap (DOMAIN Pending') :
             Pending'[k] = Pending[k]
       /\ \A c \in Callers :
             (Issuing(c) /\ IdStr(Id) \in DOMAIN Pending)
                => (pc'[c] # "wait" /\ Pending' = Pending)]_vars

\* handleResponse holds the mutex and finds no channel under the id of res.
Unmatched == dpc = "locked" /\ LookupKey(dres) \notin DOMAIN Pending

\* C14: the step handleResponse takes with a response whose id is not in the
\* Pending map changes neither the map nor any caller (none receives, none
\* returns), puts the response nowhere (the socket's queue is as before) and
\* goes back to the top of the loop releasing the mutex; and no caller ever
\* receives a response that had been dropped, also not a caller that
\* registers that id afterwards.
C14_UnknownIdDropped ==
    /\ [][(Unmatched /\ dpc' # dpc) =>
             /\ Pending' = Pending
             /\ pc' = pc /\ got' = got /\ ret' = ret
             /\ inbound' = inbound
             /\ dpc' = "top" /\ mu' = "free"]_vars
    /\ [](\A c \in Callers : Received(c) => ~got[c].dropped)

\* C14 witness: a response was dropped, and afterwards an Eval registered
\* the id it carried and waits on it.
C14_Witness ==
    /\ dpc = "top"
    /\ dres.dropped
    /\ \E c \in Callers :
          /\ pc[c] = "wait"
          /\ idStr[c] = LookupKey(dres)
          /\ LookupKey(dres) \in DOMAIN Pending

\* handleResponse is between ch <- res and delete(c.Pending, idStr).
JustDelivered(k) == dpc = "sent" /\ k = LookupKey(dres)

\* C15: a send on a channel is always the first on it (its caller was
\* waiting and had received nothing); the entry of a channel that was sent
\* on is removed by handleResponse's next step, with the mutex held in
\* between; so every entry in the Pending map but that one belongs to a
\* caller still waiting under that id, whatever frames arrive.
C15_FulfilledOnce ==
    /\ [][(dpc = "send" /\ dpc' = "sent") =>
             \E c \in Callers :
                /\ Pending[LookupKey(dres)] = c
                /\ pc[c] = "wait" /\ got[c].none
                /\ got'[c] = dres /\ pc'[c] = "idle"]_vars
    /\ [](dpc \in {"send", "sent"} => mu = "disp")
    /\ [][dpc = "sent" =>
             (Pending' = MapDelete(Pending, LookupKey(dres))
                \/ (Pending' = Pending /\ dpc' = "sent"))]_vars
    /\ [](\A k \in DOMAIN Pending :
             JustDelivered(k)
                \/ (pc[Pending[k]] = "wait" /\ idStr[Pending[k]] = k))

\* C15 witness: a second frame with the id of a fulfilled request was
\* received and found no entry.
C15_Witness ==
    /\ dpc = "top"
    /\ dres.dropped
    /\ \E c \in Callers :
          /\ Received(c)
          /\ pc[c] = "idle"
          /\ got[c].id = dres.id

\* The step is taken by caller c alone / by handleResponse alone.
StepOf(c) ==
    pc'[c] # pc[c] /\ dpc' = dpc /\ \A d \in Callers \ {c} : pc'[d] = pc[d]
StepOfDisp == dpc' # dpc /\ pc' = pc

InBody(c) ==
    pc[c] \in {"locked", "killClose", "killWait", "killProc", "killProbe"}

\* C18: every step that changes the Pending map or the id counter or hands
\* a request to the socket is a step of the one goroutine that holds the
\* session mutex at that moment; and a caller inside the body of Start, Kill,
\* Load or Eval holds that same mutex.
C18_UnderLock ==
    /\ [][(Pending' # Pending \/ Id' # Id \/ ~(sent' \subseteq sent)) =>
             \/ (mu = "disp" /\ StepOfDisp)
             \/ \E c \in Callers : mu = c /\ StepOf(c)]_vars
    /\ [](\A c \in Callers : InBody(c) => mu = c)

\* C18 witness: an Eval has registered and sent its request, and now a Kill
\* holds the mutex while handleResponse waits for it with a frame in hand.
C18_Witness ==
    \E c, d \in Callers :
       /\ op[c] = "Eval" /\ pc[c] = "wait"
       /\ idStr[c] \in DOMAIN Pending
       /\ op[d] = "Kill" /\ mu = d
       /\ dpc = "lock"

\* C19: a Receive that returns no response (the connection is closed, the
\* frame cannot be decoded, or anything else) sends handleResponse back to
\* the top of its loop with the Pending map unchanged; handleResponse never
\* ends in any other way than by finding Done closed at the top of the loop,
\* and then it calls Wg.Done once and stays ended.
C19_DispatcherSurvives ==
    /\ [][(dpc = "recv" /\ dpc' \notin {"recv", "lock"}) =>
             (dpc' = "top" /\ Pending' = Pending)]_vars
    /\ [][(dpc # "exited" /\ dpc' = "exited") =>
             (dpc = "top" /\ DoneClosed /\ Wg' = Wg - 1)]_vars
    /\ [][dpc = "exited" => (dpc' = "exited" /\ Wg' = Wg)]_vars
    /\ [](dpc # "panic")

\* C20: once the connection is closed, handleResponse eventually ends;
\* stated for the runs in which neither Kill nor Load is called, so that the
\* connection was closed by the browser and nothing holds handleResponse up.
C20_DispatcherExits ==
    (Ws = "closed" /\ NoKillCalled /\ NoLoadCalled)
       ~> (dpc = "exited" \/ ~NoKillCalled \/ ~NoLoadCalled)

\* The steps of BaseBrowser.Kill after the stop signal, after the close of
\* the transport, and after the wait for the dispatcher.
AfterSignal == {"killClose", "killWait", "killProc", "killProbe"}
AfterClose == {"killWait", "killProc", "killProbe"}
AfterWait == {"killProc", "killProbe"}

\* No dispatcher goroutine is running.
DispatcherGone == dpc \in {"notStarted", "exited"}

\* C21: within one Kill call the order is: stop signal set, transport closed,
\* wait for the dispatcher's exit, process terminated.  A Kill past the signal
\* finds Done closed, a Kill past the close finds no open transport, a Kill
\* past the wait finds no dispatcher; the steps follow each other in that
\* order, and the browser process is terminated only by a Kill past the wait,
\* when no dispatcher is running.
C21_KillOrder ==
    /\ [](\A c \in Callers :
            /\ pc[c] \in AfterSignal => DoneClosed
            /\ pc[c] \in AfterClose => Ws # "open"
            /\ pc[c] \in AfterWait => DispatcherGone)
    /\ [][\A c \in Callers :
            /\ (pc[c] = "locked" /\ op[c] = "Kill" /\ pc'[c] # pc[c])
                 => (pc'[c] = "killClose" /\ DoneClosed')
            /\ (pc[c] = "killClose" /\ pc'[c] # pc[c])
                 => (pc'[c] = "killWait" /\ Ws' # "open")
            /\ (pc[c] = "killWait" /\ pc'[c] # pc[c])
                 => (pc'[c] = "killProc" /\ Wg = 0 /\ DispatcherGone)
            /\ (pc[c] = "killProc" /\ pc'[c] # pc[c])
                 => pc'[c] \in {"killProbe", "cleanup", "idle"}]_vars
    /\ [][(procAlive /\ ~procAlive') =>
             (/\ DispatcherGone
              /\ DoneClosed
              /\ Ws # "open"
              /\ \E c \in Callers : pc[c] \in AfterWait)]_vars

\* A Kill has returned after it stopped a running dispatcher, closed the
\* transport and terminated the process.
C21_Witness ==
    \E c \in Callers :
        /\ op[c] = "Kill" /\ pc[c] = "idle" /\ ret[c] = "nil"
        /\ dpc = "exited"
        /\ Ws = "closed"
        /\ DoneClosed
        /\ Process # "nil" /\ ~procAlive

\* Caller c's BaseBrowser.Kill returns in this step: for Chrome that is the
\* return of Kill, for Firefox the return of f.BaseBrowser.Kill().
BaseKillEnds(c) ==
    /\ op[c] = "Kill"
    /\ pc[c] \notin {"idle", "cleanup"}
    /\ pc'[c] \in {"idle", "cleanup"}

\* What it returns.
BaseKillResult(c) == IF pc'[c] = "cleanup" THEN "nil" ELSE ret'[c]

\* C22: failures on the kill path do not prevent the remaining shutdown
\* steps.  A Kill whose transport close failed goes on to the wait and to the
\* process termination: BaseBrowser.Kill returns only from its last steps,
\* with the barrier passed and, when there is a process handle, with the
\* termination attempted.  A failed termination with the process already gone
\* makes it return success, and it returns an error only when the termination
\* failed and the process was still running.
C22_KillPathFailures ==
    /\ [](\A c \in Callers :
            (op[c] = "Kill" /\ "close" \in kerr[c])
              => pc[c] \in AfterClose \cup {"cleanup", "idle"})
    /\ [][\A c \in Callers :
            BaseKillEnds(c) =>
              /\ pc[c] \in AfterWait
              /\ Wg = 0
              /\ Process # "nil" => (~procAlive' \/ "kill" \in kerr'[c])
              /\ ("kill" \in kerr[c] /\ ~procAlive)
                   => BaseKillResult(c) = "nil"
              /\ BaseKillResult(c) # "nil"
                   => /\ BaseKillResult(c) = "ErrKill"
                      /\ "kill" \in kerr[c]
                      /\ procAlive]_vars

\* A Kill has returned success although both its transport close and its
\* process termination failed.
C22_Witness ==
    \E c \in Callers :
        /\ op[c] = "Kill" /\ pc[c] = "idle" /\ ret[c] = "nil"
        /\ kerr[c] = {"close", "kill"}
        /\ Wg = 0

\* C23: Firefox.Kill always runs the base shutdown first and then its own
\* cleanup: every Firefox.Kill call that returns has removed the profile
\* directory (or reports that the removal itself failed), and the directory
\* is removed only by a call whose base Kill has finished.
C23_CleanupAlways ==
    /\ [][\A c \in Callers :
            (variant = "firefox" /\ op[c] = "Kill"
               /\ pc[c] # "idle" /\ pc'[c] = "idle")
              => (profile' = "removed" \/ ret'[c] = "ErrProfile")]_vars
    /\ [][(profile # "removed" /\ profile' = "removed")
             => \E c \in Callers :
                  op[c] = "Kill" /\ pc[c] = "cleanup" /\ mu' = mu]_vars

\* C24: for every variant, a session started by New has at most one
\* dispatcher, and the transport is non-nil whenever the dispatcher has been
\* started; when the connection cannot be established no dispatcher is
\* started, and New returns the error only after its Kill call has returned.
C24_DispatcherAfterTransport ==
    /\ Wg <= 1
    /\ dpc # "notStarted" => (Ws # "nil" /\ npc = "returned" /\ Wg = 1)
    /\ retryErr # NoErr => dpc = "notStarted"
    /\ (npc = "returnedErr" /\ retryErr # NoErr)
         => (op[N] = "Kill" /\ pc[N] = "idle")

\* The step belongs to a Kill call / is the exit of handleResponse.
KillStep == \E k \in Callers : op'[k] = "Kill" /\ pc'[k] # pc[k]
DispatcherExit == dpc # "exited" /\ dpc' = "exited"

\* The callers blocked on their channel stay blocked in this step.
WaitersStay == \A c \in Callers : pc[c] = "wait" => pc'[c] = "wait"

\* C25: commands have no timeout and no cancellation.  A caller blocked on
\* its channel leaves the receive only when handleResponse sends a received
\* response on that channel; no step of a Kill call and not the exit of the
\* dispatcher fulfils a slot, unblocks a waiter or changes the Pending map;
\* and once the dispatcher has exited, as it has when Kill has completed,
\* every caller still waiting waits forever.
C25_NoCancellation ==
    /\ [][\A c \in Callers :
            (pc[c] = "wait" /\ pc'[c] # "wait")
              => /\ dpc = "send" /\ dpc' = "sent"
                 /\ ~dres.none
                 /\ Pending[LookupKey(dres)] = c
                 /\ got'[c] = dres]_vars
    /\ [][(KillStep \/ DispatcherExit)
             => (Pending' = Pending /\ WaitersStay)]_vars
    /\ [][dpc = "exited" => (dpc' = "exited" /\ WaitersStay)]_vars

\* A Kill has completed on a session whose dispatcher ran, and an Eval is
\* still blocked with its slot registered in Pending.
C25_Witness ==
    \E c, k \in Callers :
        /\ op[k] = "Kill" /\ pc[k] = "idle" /\ ret[k] = "nil"
        /\ dpc = "exited"
        /\ op[c] = "Eval" /\ pc[c] = "wait"
        /\ idStr[c] \in DOMAIN Pending
        /\ Pending[idStr[c]] = c

\* A connected Chrome session on which nothing but Eval calls are in flight:
\* the connection is open, the stop signal is not set, and every caller
\* inside a method is inside Eval.
OnlyEvals ==
    /\ variant = "chrome"
    /\ Ws = "open"
    /\ ~DoneClosed
    /\ \A d \in Callers : pc[d] # "idle" => op[d] = "Eval"

\* C26: on a connected Chrome session with only Eval calls in flight and a
\* browser that answers every request, under fair scheduling every Eval
\* eventually returns.
C26_EvalReturns ==
    \A c \in Callers :
       (op[c] = "Eval" /\ pc[c] # "idle" /\ OnlyEvals)
          ~> (pc[c] = "idle" \/ ~OnlyEvals)

====
